---- MODULE Spec2Model ----
(***************************************************************************)
(* Matrix-factorization rating predictor of rec_sys: the training session  *)
(* (trainModel), the predictor (predictRating) and the model builder       *)
(* (createModel), in the two variants the repository ships:                *)
(*   "part_000"  src/unnamed/part_000  (isTraining flag, try/catch/finally)*)
(*   "week3"     src/week3/script.js   (no flag, no error handling)        *)
(*                                                                         *)
(* JavaScript runs one task at a time and a task keeps the processor until *)
(* it awaits.  Every action below is one such run-to-completion piece: the *)
(* part of a handler between its entry (or the resumption of an await) and *)
(* its next await (or its return).                                         *)
(***************************************************************************)
EXTENDS Integers, Sequences, FiniteSets, TLC

----------------------------------------------------------------------------
(* Bounds of the model *)

\* trainModel calls made in one behaviour, by any cooperative task
MaxCalls == 2
\* numUsers and numMovies of the loaded dataset range over 0..MaxDim
MaxDim == 1
\* largest user id and movie id in the MovieLens files
MaxId == 3
\* most lines of u.data
MaxRatings == 2
\* the genre lists compared are drawn from the first MaxGenre of the 18
\* genres and have at most MaxLen entries
MaxGenre == 3
MaxLen == 3
\* most movies in the list the ranker works on
MaxMovies == 7

Variants == {"part_000", "week3"}

----------------------------------------------------------------------------
(* Program constants *)

\* part_000:172  epochs: 10
EPOCHS == 10
\* week3/script.js:98  epochs: 5
W3_EPOCHS == 5
\* part_000:143  createModel(numUsers, numMovies, 15)
LATENT_DIM == 15
\* week3/script.js:42  latentDim = 20 (default used by trainModel, line 78)
W3_LATENT_DIM == 20
\* part_000:2  let model = null   /  week3/script.js:5  let model (undefined)
NoModel == 0
\* const TOP_N = 5 (part_001), slice(0, 2) (week2)
TOP_N == 5
W2_TOP_N == 2
\* GENRES_18.length
NumGenres == 18
\* part_000:4  let trainingStartTime = null
NoTime == 0 - 1
\* parseInt of an empty or non-numeric <select> value: a number that is no id
NaN == MaxDim + 100

\* values a caller can find in the two dropdowns (after parseInt)
IdInputs == (-1 .. MaxDim + 1) \cup {NaN}
\* arguments a direct createModel call is tried with
DimInputs == -1 .. MaxDim
\* raw dot products, in thousandths of a rating point
RawValues == {-500, 3456, 7000}

----------------------------------------------------------------------------
(* State *)

VARIABLES
    variant,            \* which script the page runs
    numUsers,           \* data.js globals, as left by loadData
    numMovies,
    model,              \* global `model`: NoModel or the id of a model object
    heap,               \* the model objects still referenced, by id
    isTraining,         \* part_000 global flag
    trainingStartTime,  \* part_000 global timestamp (NoTime = null)
    predictBtn,         \* TRUE once the code has set predict-btn.disabled = false
    fit,                \* the trainModel calls suspended in `await model.fit`:
                        \* model object being fitted |-> epochs completed
    calls,              \* trainModel calls made so far
    created,            \* model objects created so far (source of object ids)
    lastRun,            \* how the most recently ended accepted run ended
    ev,                 \* the handler that ran last and what its caller saw
    reports,            \* per suspended trainModel call: the epoch numbers
                        \* its onEpochEnd callback has been called with
    data,               \* data.js: the two files and what loadData made of them
    rank,               \* genre ranker: movies, selection, recommendations
    sim                 \* two genre lists and their Jaccard scores

vars == <<variant, numUsers, numMovies, model, heap, isTraining,
          trainingStartTime, predictBtn, fit, calls, created, lastRun, ev,
          reports, data, rank, sim>>

\* the parts of the page a handler of the rating predictor never touches
others == <<data, rank, sim>>

NoEv == [op |-> "none", run |-> 0, outcome |-> "none", stage |-> "none",
         promise |-> "none", user |-> 0, movie |-> 0, raw |-> 0, display |-> 0,
         modelId |-> 0, fitted |-> "none",
         nu |-> 0, nm |-> 0, ld |-> 0, userRows |-> 0, movieRows |-> 0,
         dim |-> 0, reported |-> <<>>]

----------------------------------------------------------------------------
(* Library contract (TensorFlow.js), as far as the scripts rely on it *)

\* tf.layers.embedding({inputDim, outputDim}): both must be positive integers
Embedding(inputDim, outputDim) ==
    IF inputDim > 0 /\ outputDim > 0
    THEN [ok |-> TRUE, rows |-> inputDim, cols |-> outputDim]
    ELSE [ok |-> FALSE, rows |-> 0, cols |-> 0]

----------------------------------------------------------------------------
(* createModel *)

MkModel(ue, me) ==
    IF ue.ok /\ me.ok
    THEN [ok |-> TRUE, userRows |-> ue.rows, movieRows |-> me.rows,
          latentDim |-> ue.cols]
    ELSE [ok |-> FALSE, userRows |-> 0, movieRows |-> 0, latentDim |-> 0]

\* part_000: inputDim: numUsers + 1 / numMovies + 1
createModel(nu, nm, latentDim) ==
    MkModel(Embedding(nu + 1, latentDim), Embedding(nm + 1, latentDim))

\* week3: inputDim: numUsers / numMovies
W3createModel(nu, nm, latentDim) ==
    MkModel(Embedding(nu, latentDim), Embedding(nm, latentDim))

----------------------------------------------------------------------------
(* Helpers on the object heap *)

\* how far the weights of a model object have been fitted
Fitted(done, total) ==
    IF done = 0 THEN "initial" ELSE IF done < total THEN "partial" ELSE "complete"

NewObject(m) ==
    [userRows |-> m.userRows, movieRows |-> m.movieRows,
     latentDim |-> m.latentDim, fitted |-> "initial"]

\* objects reachable from the global or from a running fit call
Live(mdl, f) == ({mdl} \cup DOMAIN f) \ {NoModel}

Collect(h, mdl, f) == [i \in Live(mdl, f) |-> h[i]]

\* a function without the argument r
Without(f, r) == [i \in DOMAIN f \ {r} |-> f[i]]

----------------------------------------------------------------------------
(* Environment *)

\* Date.now(): the clock never runs backwards
DateNow(last) == IF last = NoTime THEN {0} ELSE {last, last + 1}

\* where a library call of trainModel's synchronous part can throw
Stages == {"create", "compile", "tensors", "fit"}

NoFit == [i \in {} |-> 0]

\* the callback records of the calls suspended in f: a call that has just
\* reached its await has none yet, a call that has ended is forgotten
Pending(rep, f) ==
    [i \in DOMAIN f |-> IF i \in DOMAIN rep THEN rep[i] ELSE <<>>]

\* the value of data, rank or sim where the script it belongs to is not
\* looked at: the trainer's page after loadData has returned, the loader
\* without the ranker
Elsewhere == 0

\* nothing loaded, nothing selected, nothing compared
NoData == [loaded |-> FALSE, item |-> {}, lines |-> {}, ratings |-> {},
           movies |-> {}]
NoScore == [num |-> 0, rad |-> 1]
NoRank == [done |-> FALSE, script |-> "none", metric |-> "none",
           movies |-> <<>>, selected |-> 0, top |-> <<>>]
NoSim == [done |-> FALSE, a |-> <<>>, b |-> <<>>, byVector |-> NoScore,
          bySet |-> NoScore, byVectorRev |-> NoScore, bySetRev |-> NoScore]

\* the session state of a page on which no handler has run
Idle ==
    /\ reports = NoFit
    /\ model = NoModel
    /\ heap = [i \in {} |-> 0]
    /\ isTraining = FALSE
    /\ trainingStartTime = NoTime
    /\ predictBtn = FALSE
    /\ fit = NoFit
    /\ calls = 0
    /\ created = 0
    /\ lastRun = "none"
    /\ ev = NoEv

Init ==
    /\ variant \in Variants
    /\ numUsers \in 0 .. MaxDim
    /\ numMovies \in 0 .. MaxDim
    /\ data = Elsewhere
    /\ rank = Elsewhere
    /\ sim = Elsewhere
    /\ Idle

----------------------------------------------------------------------------
(* trainModel, part_000 *)

TrainEv(r, outcome, stage, promise) ==
    [NoEv EXCEPT !.op = "train", !.run = r, !.outcome = outcome,
                 !.stage = stage, !.promise = promise]

\* (variant of EarlyReturn used to test C1: the guard placed inside the try
\* block, so that the early return runs the finally block)
EarlyReturnInsideTry ==
    /\ ev' = TrainEv(0, "noop", "none", "fulfilled")
    /\ isTraining' = FALSE
    /\ UNCHANGED <<model, heap, trainingStartTime, predictBtn, fit, created,
                   lastRun>>

\* the guard's early return: nothing but a console.log
EarlyReturn ==
    /\ ev' = TrainEv(0, "noop", "none", "fulfilled")
    /\ UNCHANGED <<model, heap, isTraining, trainingStartTime, predictBtn,
                   fit, created, lastRun>>

\* (variant of Finally used to test C3: no finally block, the flag is left
\* as the call found it on resumption)
FinallyMissing == UNCHANGED isTraining

\* finally { isTraining = false }
Finally == isTraining' = FALSE

\* catch: the error is logged and shown on the page, and not thrown again; the
\* async function returns normally after the finally block
Catch(r, stage) ==
    /\ ev' = TrainEv(r, "failed", stage, "fulfilled")
    /\ lastRun' = "failed"

\* (variant of BuildFailed used to test C15: `model` is cleared before
\* createModel is called, so a build that throws leaves no model behind)
BuildFailedModelCleared ==
    /\ model' = NoModel
    /\ heap' = Collect(heap, NoModel, fit)
    /\ UNCHANGED <<created, fit>>

\* createModel throws: the assignment `model = createModel(...)` never
\* happens, and control leaves the try block
BuildFailed == UNCHANGED <<model, heap, created, fit>>

\* (variant of AssignModel used to test C14: `model = model || createModel()`,
\* a model once assigned is kept)
AssignModelOnce(m) ==
    /\ created' = created + 1
    /\ model' = IF model = NoModel THEN created + 1 ELSE model
    /\ heap' = Collect((created + 1 :> NewObject(m)) @@ heap, model', fit')

\* model = createModel(...): the global now refers to a new object
AssignModel(m) ==
    /\ created' = created + 1
    /\ model' = created + 1
    /\ heap' = Collect((created + 1 :> NewObject(m)) @@ heap, created + 1, fit')

\* entry of trainModel up to its await of model.fit
trainModel(fail, tnow) ==
    /\ variant = "part_000"
    /\ calls < MaxCalls
    /\ calls' = calls + 1
    /\ UNCHANGED <<others, variant, numUsers, numMovies>>
    /\ IF isTraining
       THEN EarlyReturn
       ELSE LET m == createModel(numUsers, numMovies, LATENT_DIM)
                failsAt == IF ~m.ok THEN "create" ELSE fail
            IN  /\ trainingStartTime' = tnow
                /\ UNCHANGED predictBtn
                /\ IF failsAt = "create"
                   THEN /\ BuildFailed
                        /\ Catch(0, failsAt)
                        /\ Finally
                   ELSE IF failsAt # "none"
                   THEN /\ UNCHANGED fit
                        /\ AssignModel(m)
                        /\ Catch(created + 1, failsAt)
                        /\ Finally
                   ELSE /\ fit' = (created + 1 :> 0) @@ fit
                        /\ AssignModel(m)
                        /\ isTraining' = TRUE
                        /\ ev' = TrainEv(created + 1, "started", "none", "pending")
                        /\ UNCHANGED lastRun
    /\ reports' = Pending(reports, fit')

\* (variant of onEpochEnd used to test C13: the callback updates the page
\* only on every other epoch)
onEpochEndThrottled(r) ==
    /\ variant = "part_000"
    /\ r \in DOMAIN fit
    /\ fit[r] < EPOCHS
    /\ fit' = [fit EXCEPT ![r] = @ + 1]
    /\ heap' = [heap EXCEPT ![r].fitted = Fitted(fit[r] + 1, EPOCHS)]
    /\ reports' = IF fit[r] % 2 = 0
                  THEN [reports EXCEPT ![r] = Append(@, fit[r])]
                  ELSE reports
    /\ ev' = [NoEv EXCEPT !.op = "epoch", !.run = r, !.outcome = "report",
                          !.display = fit[r] + 1]
    /\ UNCHANGED <<others, variant, numUsers, numMovies, model, isTraining,
                   trainingStartTime, predictBtn, calls, created, lastRun>>

\* one epoch of the running fit call ends: the weights have moved, onEpochEnd
\* reports, and fit yields to the event loop
onEpochEnd(r) ==
    /\ variant = "part_000"
    /\ r \in DOMAIN fit
    /\ fit[r] < EPOCHS
    /\ fit' = [fit EXCEPT ![r] = @ + 1]
    /\ heap' = [heap EXCEPT ![r].fitted = Fitted(fit[r] + 1, EPOCHS)]
    /\ reports' = [reports EXCEPT ![r] = Append(@, fit[r])]
    /\ ev' = [NoEv EXCEPT !.op = "epoch", !.run = r, !.outcome = "report",
                          !.display = fit[r] + 1]
    /\ UNCHANGED <<others, variant, numUsers, numMovies, model, isTraining,
                   trainingStartTime, predictBtn, calls, created, lastRun>>

\* (variant of fitRejects used to test C17: the button is enabled in the
\* finally block, on every way out)
fitRejectsEnablesButton(r) ==
    /\ variant = "part_000"
    /\ r \in DOMAIN fit
    /\ fit[r] < EPOCHS
    /\ fit' = Without(fit, r)
    /\ reports' = Pending(reports, fit')
    /\ heap' = Collect(heap, model, fit')
    /\ Catch(r, "fit")
    /\ Finally
    /\ predictBtn' = TRUE
    /\ UNCHANGED <<others, variant, numUsers, numMovies, model,
                   trainingStartTime, calls, created>>

\* the promise of model.fit rejects: trainModel resumes in its catch block
fitRejects(r) ==
    /\ variant = "part_000"
    /\ r \in DOMAIN fit
    /\ fit[r] < EPOCHS
    /\ fit' = Without(fit, r)
    /\ reports' = Pending(reports, fit')
    /\ heap' = Collect(heap, model, fit')
    /\ Catch(r, "fit")
    /\ Finally
    /\ UNCHANGED <<others, variant, numUsers, numMovies, model,
                   trainingStartTime, predictBtn, calls, created>>

\* the promise of model.fit resolves: trainModel resumes after the await;
\* btn says whether getElementById('predict-btn') finds the button
trainModelResume(r, btn) ==
    /\ variant = "part_000"
    /\ r \in DOMAIN fit
    /\ fit[r] = EPOCHS
    /\ fit' = Without(fit, r)
    /\ reports' = Pending(reports, fit')
    /\ heap' = Collect(heap, model, fit')
    /\ IF btn
       THEN /\ predictBtn' = TRUE
            /\ ev' = [TrainEv(r, "succeeded", "none", "fulfilled")
                         EXCEPT !.reported = reports[r]]
            /\ lastRun' = "succeeded"
       ELSE /\ UNCHANGED predictBtn
            /\ Catch(r, "ui")
    /\ Finally
    /\ UNCHANGED <<others, variant, numUsers, numMovies, model,
                   trainingStartTime, calls, created>>

----------------------------------------------------------------------------
(* trainModel, week3: no flag, no try: an error rejects the call's promise *)

\* an exception leaves the async function
Throw(r, stage) ==
    /\ ev' = TrainEv(r, "failed", stage, "rejected")
    /\ lastRun' = "failed"

W3trainModel(fail) ==
    /\ variant = "week3"
    /\ calls < MaxCalls
    /\ calls' = calls + 1
    /\ UNCHANGED <<others, variant, numUsers, numMovies, isTraining,
                   trainingStartTime, predictBtn>>
    /\ LET m == W3createModel(numUsers, numMovies, W3_LATENT_DIM)
           failsAt == IF ~m.ok THEN "create" ELSE fail
       IN  IF failsAt = "create"
           THEN /\ BuildFailed
                /\ Throw(0, failsAt)
           ELSE IF failsAt # "none"
           THEN /\ UNCHANGED fit
                /\ AssignModel(m)
                /\ Throw(created + 1, failsAt)
           ELSE /\ fit' = (created + 1 :> 0) @@ fit
                /\ AssignModel(m)
                /\ ev' = TrainEv(created + 1, "started", "none", "pending")
                /\ UNCHANGED lastRun
    /\ reports' = Pending(reports, fit')

\* one epoch of a running fit call ends (no callback is registered)
W3fitEpoch(r) ==
    /\ variant = "week3"
    /\ r \in DOMAIN fit
    /\ fit[r] < W3_EPOCHS
    /\ fit' = [fit EXCEPT ![r] = @ + 1]
    /\ heap' = [heap EXCEPT ![r].fitted = Fitted(fit[r] + 1, W3_EPOCHS)]
    /\ UNCHANGED reports
    /\ ev' = [NoEv EXCEPT !.op = "epoch", !.run = r, !.outcome = "silent"]
    /\ UNCHANGED <<others, variant, numUsers, numMovies, model, isTraining,
                   trainingStartTime, predictBtn, calls, created, lastRun>>

W3fitRejects(r) ==
    /\ variant = "week3"
    /\ r \in DOMAIN fit
    /\ fit[r] < W3_EPOCHS
    /\ fit' = Without(fit, r)
    /\ reports' = Pending(reports, fit')
    /\ heap' = Collect(heap, model, fit')
    /\ Throw(r, "fit")
    /\ UNCHANGED <<others, variant, numUsers, numMovies, model, isTraining,
                   trainingStartTime, predictBtn, calls, created>>

W3trainModelResume(r) ==
    /\ variant = "week3"
    /\ r \in DOMAIN fit
    /\ fit[r] = W3_EPOCHS
    /\ fit' = Without(fit, r)
    /\ reports' = Pending(reports, fit')
    /\ heap' = Collect(heap, model, fit')
    /\ ev' = TrainEv(r, "succeeded", "none", "fulfilled")
    /\ lastRun' = "succeeded"
    /\ UNCHANGED <<others, variant, numUsers, numMovies, model, isTraining,
                   trainingStartTime, predictBtn, calls, created>>

----------------------------------------------------------------------------
(* predictRating *)

Min(a, b) == IF a < b THEN a ELSE b
Max(a, b) == IF a > b THEN a ELSE b

\* Math.min(Math.max(rating, 1), 5), in thousandths
Clamp(rating) == Min(Max(rating, 1000), 5000)

\* Number.prototype.toFixed(2): thousandths in, hundredths out
toFixed2(x) == IF x >= 0 THEN (x + 5) \div 10 ELSE 0 - ((5 - x) \div 10)

\* !x for a number: 0 and NaN are falsy
Falsy(x) == x = 0 \/ x = NaN

\* the embedding lookup finds a row for both ids
InTable(u, m, obj) ==
    /\ u # NaN /\ m # NaN
    /\ 0 <= u /\ u < obj.userRows
    /\ 0 <= m /\ m < obj.movieRows

PredictEv(outcome, u, m, raw, display) ==
    [NoEv EXCEPT !.op = "predict", !.outcome = outcome, !.user = u,
                 !.movie = m, !.raw = raw, !.display = display,
                 !.modelId = model,
                 !.fitted = IF model = NoModel THEN "none" ELSE heap[model].fitted,
                 !.promise = IF outcome = "uncaughtError" THEN "rejected"
                                                          ELSE "fulfilled"]

\* predictRating changes nothing a later handler reads, and what it reports
\* does not depend on the handler that ran before it: called right after
\* another predictRating it reaches the states that call alone reaches from
\* the state before.  Those repeated steps are left out.
Fresh == ev.op # "predict"

\* if (!model) { updateResult('Model is not ready yet. ...'); return; }
ModelCheck == model = NoModel

\* if (!userId || !movieId) { updateResult('Please select both ...'); return; }
SelectionCheck(u, m) == Falsy(u) \/ Falsy(m)

\* (variant of predictRating used to test C12: a finally block copied from
\* trainModel clears the in-progress flag)
predictRatingClearsFlag(u, m, raw, throws) ==
    /\ variant = "part_000"
    /\ Fresh
    /\ ev' = IF ModelCheck
             THEN PredictEv("modelNotReady", 0, 0, 0, 0)
             ELSE IF SelectionCheck(u, m)
             THEN PredictEv("invalidSelection", u, m, 0, 0)
             ELSE IF ~InTable(u, m, heap[model]) /\ throws
             THEN PredictEv("predictionFailed", u, m, 0, 0)
             ELSE PredictEv("value", u, m, raw, toFixed2(Clamp(raw)))
    /\ isTraining' = FALSE
    /\ UNCHANGED <<others, reports, variant, numUsers, numMovies, model, heap,
                   trainingStartTime, predictBtn, fit, calls, created, lastRun>>

\* part_000.  A lookup outside the table is left to the library: depending on
\* the backend it throws (caught here) or yields whatever the read returns.
predictRating(u, m, raw, throws) ==
    /\ variant = "part_000"
    /\ Fresh
    /\ ev' = IF ModelCheck
             THEN PredictEv("modelNotReady", 0, 0, 0, 0)
             ELSE IF SelectionCheck(u, m)
             THEN PredictEv("invalidSelection", u, m, 0, 0)
             ELSE IF ~InTable(u, m, heap[model]) /\ throws
             THEN PredictEv("predictionFailed", u, m, 0, 0)
             ELSE PredictEv("value", u, m, raw, toFixed2(Clamp(raw)))
    /\ UNCHANGED <<others, reports, variant, numUsers, numMovies, model, heap,
                   isTraining, trainingStartTime, predictBtn, fit, calls,
                   created, lastRun>>

\* week3: no check of `model`, no check of the ids, no clamp, no try
W3predictRating(u, m, raw, throws) ==
    /\ variant = "week3"
    /\ Fresh
    /\ ev' = IF model = NoModel
             THEN PredictEv("uncaughtError", 0, 0, 0, 0)
             ELSE IF ~InTable(u, m, heap[model]) /\ throws
             THEN PredictEv("uncaughtError", u, m, 0, 0)
             ELSE PredictEv("value", u, m, raw, toFixed2(raw))
    /\ UNCHANGED <<others, reports, variant, numUsers, numMovies, model, heap,
                   isTraining, trainingStartTime, predictBtn, fit, calls,
                   created, lastRun>>

----------------------------------------------------------------------------
(* createModel called on its own, with any arguments *)

BuildEv(nu, nm, ld, m) ==
    [NoEv EXCEPT !.op = "build", !.nu = nu, !.nm = nm, !.ld = ld,
                 !.outcome = IF m.ok THEN "model" ELSE "threw",
                 !.userRows = m.userRows, !.movieRows = m.movieRows,
                 !.dim = m.latentDim]

build(nu, nm, ld) ==
    /\ ev' = BuildEv(nu, nm, ld,
                     IF variant = "part_000" THEN createModel(nu, nm, ld)
                                             ELSE W3createModel(nu, nm, ld))
    /\ UNCHANGED <<others, reports, variant, numUsers, numMovies, model, heap,
                   isTraining, trainingStartTime, predictBtn, fit, calls,
                   created, lastRun>>

----------------------------------------------------------------------------
(* loadData, week3/data.js: the file holds two loaders.  The first keeps the
   ids of the files and goes with part_000 (which looks movies up by m.id);
   the second shifts ids by one and goes with week3/script.js (which reads
   movies[movieId + 1]).  u.item is its set of movie ids, u.data its set of
   <<userId, movieId>> lines; ids in the files start at 1. *)

Ids == 1 .. MaxId

\* the contents u.data can have
RatingFiles == {L \in SUBSET (Ids \X Ids) : Cardinality(L) <= MaxRatings}

RECURSIVE MaxOf(_)
\* Math.max folded over the user ids, starting from numUsers = 0
MaxOf(S) == IF S = {} THEN 0
            ELSE LET x == CHOOSE y \in S : TRUE
                     rest == MaxOf(S \ {x})
                 IN  IF x > rest THEN x ELSE rest

\* first loader: parseRatingData keeps the ids as read; numUsers counts the
\* distinct user ids of the ratings, numMovies the parsed lines of u.item
loadData ==
    /\ variant = "part_000"
    /\ ~data.loaded
    /\ data' = [data EXCEPT !.loaded = TRUE, !.movies = data.item,
                            !.ratings = data.lines]
    /\ numUsers' = Cardinality({r[1] : r \in data.lines})
    /\ numMovies' = Cardinality(data.item)
    /\ UNCHANGED <<rank, sim, reports, variant, model, heap, isTraining,
                   trainingStartTime, predictBtn, fit, calls, created,
                   lastRun, ev>>

\* second loader, parseItemData: "".split("\n") is [""], so an empty file is
\* one line whose id parses to NaN, and movies gets the key "NaN"
W3parseItemData(item) == IF item = {} THEN {NaN} ELSE item

\* second loader, parseRatingData: ids shifted to start at 0; the one line of
\* an empty file maps to Number("") = 0 and an undefined movie id
W3parseRatingData(lines) ==
    IF lines = {} THEN {<<0 - 1, NaN>>}
    ELSE {<<r[1] - 1, r[2] - 1>> : r \in lines}

\* second loader: numMovies counts the keys of movies, numUsers is the
\* largest user id read
W3loadData ==
    /\ variant = "week3"
    /\ ~data.loaded
    /\ data' = [data EXCEPT !.loaded = TRUE,
                            !.movies = W3parseItemData(data.item),
                            !.ratings = W3parseRatingData(data.lines)]
    /\ numMovies' = Cardinality(W3parseItemData(data.item))
    /\ numUsers' = MaxOf({r[1] : r \in data.lines})
    /\ UNCHANGED <<rank, sim, reports, variant, model, heap, isTraining,
                   trainingStartTime, predictBtn, fit, calls, created,
                   lastRun, ev>>

\* the model trainModel builds from the loaded dimensions
ModelFor(nu, nm) ==
    IF variant = "part_000" THEN createModel(nu, nm, LATENT_DIM)
                            ELSE W3createModel(nu, nm, W3_LATENT_DIM)

\* before loadData: `let numUsers = 0; let numMovies = 0`, and any files
InitData ==
    /\ variant \in Variants
    /\ numUsers = 0
    /\ numMovies = 0
    /\ \E I \in SUBSET Ids, L \in RatingFiles :
           data = [NoData EXCEPT !.item = I, !.lines = L]
    /\ rank = Elsewhere
    /\ sim = Elsewhere
    /\ Idle

NextData ==
    \/ loadData
    \/ W3loadData

SpecData == InitData /\ [][NextData]_vars

----------------------------------------------------------------------------
(* Genre similarity, part_001 and week2/script.js.  A genre is its position
   1 .. 18 in GENRES_18, a genre list a sequence of genres.  A score is kept
   exactly, as num / sqrt(rad): the quotient dot / union of the Jaccard score
   is num = dot, rad = union * union, the cosine dot / (sqrt(na) * sqrt(nb)) is
   num = dot, rad = na * nb. *)

Score(num, rad) == [num |-> num, rad |-> rad]

\* a.score === b.score
Same(x, y) == x.num * x.num * y.rad = y.num * y.num * x.rad

\* a.score < b.score
Less(x, y) == x.num * x.num * y.rad < y.num * y.num * x.rad

RECURSIVE BitAnd(_, _)
\* ai & bi
BitAnd(a, b) ==
    IF a = 0 \/ b = 0 THEN 0
    ELSE (a % 2) * (b % 2) + 2 * BitAnd(a \div 2, b \div 2)

RECURSIVE toGenreVectorCounting(_)
\* (variant of toGenreVector used to test C18: v[idx] += 1, a genre listed
\* twice counts twice)
toGenreVectorCounting(genres) ==
    IF genres = <<>> THEN [i \in 1 .. NumGenres |-> 0]
    ELSE LET v == toGenreVectorCounting(SubSeq(genres, 1, Len(genres) - 1))
             g == genres[Len(genres)]
         IN  [v EXCEPT ![g] = @ + 1]

RECURSIVE toGenreVector(_)
\* a vector of 18 zeros, then v[idx] = 1 for each genre of the list in turn
toGenreVector(genres) ==
    IF genres = <<>> THEN [i \in 1 .. NumGenres |-> 0]
    ELSE LET v == toGenreVector(SubSeq(genres, 1, Len(genres) - 1))
             g == genres[Len(genres)]
         IN  [v EXCEPT ![g] = 1]

RECURSIVE SumTo(_, _)
\* the loop `for (let i = 0; i < a.length; i++) acc += f(i)`, up to index n
SumTo(f, n) == IF n = 0 THEN 0 ELSE SumTo(f, n - 1) + f[n]

cosineSimilarity(a, b) ==
    LET dot == SumTo([i \in DOMAIN a |-> a[i] * b[i]], Len(a))
        na == SumTo([i \in DOMAIN a |-> a[i] * a[i]], Len(a))
        nb == SumTo([i \in DOMAIN a |-> b[i] * b[i]], Len(a))
    IN  IF na = 0 \/ nb = 0 THEN Score(0, 1) ELSE Score(dot, na * nb)

jaccardSimilarity(a, b) ==
    LET dot == SumTo([i \in DOMAIN a |-> BitAnd(a[i], b[i])], Len(a))
        sumA == SumTo(a, Len(a))
        sumB == SumTo(b, Len(a))
        union == sumA + sumB - dot
    IN  IF union = 0 THEN Score(0, 1) ELSE Score(dot, union * union)

\* new Set(genres)
SetOf(genres) == {genres[i] : i \in DOMAIN genres}

\* week2: the score computed inside getRecommendations from two Sets
W2jaccard(liked, cand) ==
    LET likedSet == SetOf(liked)
        candSet == SetOf(cand)
        intersectCount == Cardinality({g \in likedSet : g \in candSet})
        unionSize == Cardinality(likedSet) + Cardinality(candSet)
                         - intersectCount
    IN  IF unionSize = 0 THEN Score(0, 1)
        ELSE Score(intersectCount, unionSize * unionSize)

\* genre lists, duplicates allowed
GenreLists == UNION {[1 .. n -> 1 .. MaxGenre] : n \in 0 .. MaxLen}

\* both scores of the two lists, in both orders
compareJaccard ==
    /\ ~sim.done
    /\ sim' = [sim EXCEPT
                 !.done = TRUE,
                 !.byVector = jaccardSimilarity(toGenreVector(sim.a),
                                                toGenreVector(sim.b)),
                 !.bySet = W2jaccard(sim.a, sim.b),
                 !.byVectorRev = jaccardSimilarity(toGenreVector(sim.b),
                                                   toGenreVector(sim.a)),
                 !.bySetRev = W2jaccard(sim.b, sim.a)]
    /\ UNCHANGED <<data, rank, reports, variant, numUsers, numMovies, model,
                   heap, isTraining, trainingStartTime, predictBtn, fit,
                   calls, created, lastRun, ev>>

\* two genre lists; the trainer (not on this page) is idle
InitSim ==
    /\ variant = "part_000"
    /\ numUsers = 0
    /\ numMovies = 0
    /\ data = Elsewhere
    /\ rank = Elsewhere
    /\ \E a \in GenreLists, b \in GenreLists :
           sim = [NoSim EXCEPT !.a = a, !.b = b]
    /\ Idle

NextSim == compareJaccard

SpecSim == InitSim /\ [][NextSim]_vars

----------------------------------------------------------------------------
(* getRecommendations, part_001 (metric switch, TOP_N) and week2/script.js
   (Jaccard on Sets, top 2).  A movie is [id, title, genres]; a title is its
   rank in the collation localeCompare uses with sensitivity 'base', so
   titles that differ only in case or accents have the same rank. *)

\* a.title.localeCompare(b.title, undefined, {sensitivity: 'base'})
localeCompare(a, b) == IF a < b THEN 0 - 1 ELSE IF a > b THEN 1 ELSE 0

\* (variant of compareMovies used to test C16: a.score - b.score, lowest
\* score first)
compareMoviesAscending(a, b) ==
    IF ~Same(b.score, a.score)
    THEN IF Less(b.score, a.score) THEN 1 ELSE 0 - 1
    ELSE localeCompare(a.title, b.title)

\* the comparator given to sort: b.score - a.score, then the titles
compareMovies(a, b) ==
    IF ~Same(b.score, a.score)
    THEN IF Less(a.score, b.score) THEN 1 ELSE 0 - 1
    ELSE localeCompare(a.title, b.title)

RECURSIVE InsertLast(_, _)
\* x, which came after all of `sorted` in the array, put in its place
InsertLast(sorted, x) ==
    IF sorted = <<>> THEN <<x>>
    ELSE LET last == sorted[Len(sorted)]
         IN  IF compareMovies(last, x) <= 0
             THEN Append(sorted, x)
             ELSE Append(InsertLast(SubSeq(sorted, 1, Len(sorted) - 1), x),
                         last)

RECURSIVE SortMovies(_)
\* Array.prototype.sort with compareMovies: a stable sort
SortMovies(s) ==
    IF s = <<>> THEN <<>>
    ELSE InsertLast(SortMovies(SubSeq(s, 1, Len(s) - 1)), s[Len(s)])

\* the score of candidate cand for the liked movie
ScoreOf(script, metric, liked, cand) ==
    IF script = "week2" THEN W2jaccard(liked.genres, cand.genres)
    ELSE IF metric = "jaccard"
    THEN jaccardSimilarity(toGenreVector(liked.genres),
                           toGenreVector(cand.genres))
    ELSE cosineSimilarity(toGenreVector(liked.genres),
                          toGenreVector(cand.genres))

\* slice(0, TOP_N), slice(0, 2)
TopOf(script) == IF script = "week2" THEN W2_TOP_N ELSE TOP_N

\* the list shown: <<>> when the selected id is not in the list
Recommend(script, metric, movies, selectedId) ==
    LET found == {i \in DOMAIN movies : movies[i].id = selectedId}
    IN  IF found = {} THEN <<>>
        ELSE LET likedMovie == movies[CHOOSE i \in found :
                                         \A j \in found : i <= j]
                 candidateMovies ==
                     SelectSeq(movies, LAMBDA m : m.id # likedMovie.id)
                 scoredMovies ==
                     [k \in DOMAIN candidateMovies |->
                         [id |-> candidateMovies[k].id,
                          title |-> candidateMovies[k].title,
                          genres |-> candidateMovies[k].genres,
                          score |-> ScoreOf(script, metric, likedMovie,
                                            candidateMovies[k])]]
                 sorted == SortMovies(scoredMovies)
             IN  SubSeq(sorted, 1, Min(TopOf(script), Len(sorted)))

getRecommendations ==
    /\ ~rank.done
    /\ rank' = [rank EXCEPT
                  !.done = TRUE,
                  !.top = Recommend(rank.script, rank.metric, rank.movies,
                                    rank.selected)]
    /\ UNCHANGED <<data, sim, reports, variant, numUsers, numMovies, model,
                   heap, isTraining, trainingStartTime, predictBtn, fit,
                   calls, created, lastRun, ev>>

\* genres of a movie as data.js builds them: in the order of GENRES_18
RankGenres == {<<>>, <<1>>, <<1, 2>>}

\* titles by position in the list: in reverse order, each title shared by
\* two movies
Titlings == {[i \in 1 .. MaxMovies |-> (MaxMovies + 1 - i) \div 2]}

\* the page's script and the metric its radio buttons select
Pages == {<<"part_001", "cosine">>, <<"part_001", "jaccard">>,
          <<"week2", "jaccard">>}

\* a movie list with ids 1 .. n, a page, and a movie of the list selected
InitRank ==
    /\ variant = "part_000"
    /\ numUsers = 0
    /\ numMovies = 0
    /\ data = Elsewhere
    /\ sim = Elsewhere
    /\ \E n \in 1 .. MaxMovies, t \in Titlings, pg \in Pages :
           \E g \in [1 .. n -> RankGenres], sel \in 1 .. n :
               rank = [NoRank EXCEPT
                         !.script = pg[1], !.metric = pg[2],
                         !.movies = [i \in 1 .. n |->
                                        [id |-> i, title |-> t[i],
                                         genres |-> g[i]]],
                         !.selected = sel]
    /\ Idle

NextRank == getRecommendations

SpecRank == InitRank /\ [][NextRank]_vars

----------------------------------------------------------------------------

Runs == 1 .. MaxCalls

Next ==
    \/ \E fail \in Stages \cup {"none"}, tnow \in DateNow(trainingStartTime) :
           trainModel(fail, tnow)
    \/ \E r \in Runs : onEpochEnd(r)
    \/ \E r \in Runs : fitRejects(r)
    \/ \E r \in Runs, btn \in BOOLEAN : trainModelResume(r, btn)
    \/ \E u \in IdInputs, m \in IdInputs, raw \in RawValues, throws \in BOOLEAN :
           predictRating(u, m, raw, throws)
    \/ \E fail \in Stages \cup {"none"} : W3trainModel(fail)
    \/ \E r \in Runs : W3fitEpoch(r)
    \/ \E r \in Runs : W3fitRejects(r)
    \/ \E r \in Runs : W3trainModelResume(r)
    \/ \E u \in IdInputs, m \in IdInputs, raw \in RawValues, throws \in BOOLEAN :
           W3predictRating(u, m, raw, throws)

Spec == Init /\ [][Next]_vars

\* createModel as a function of its arguments
NextBuild ==
    \E nu \in DimInputs, nm \in DimInputs, ld \in DimInputs : build(nu, nm, ld)

SpecBuild == Init /\ [][NextBuild]_vars

----------------------------------------------------------------------------
(* Claims *)

\* a trainModel call is made in this step
TrainCalled == calls' = calls + 1

\* C1: a trainModel call made while the in-progress flag is set returns at
\* once (its promise is fulfilled, nothing is reported) and changes nothing:
\* the model and its tables, the flag, the start timestamp and the epoch
\* counter of the running fit call all keep their values.
C1_SingleFlightNoop ==
    [][(isTraining /\ TrainCalled) =>
          /\ ev'.outcome = "noop"
          /\ ev'.promise = "fulfilled"
          /\ isTraining'
          /\ UNCHANGED <<model, heap, trainingStartTime, fit, created,
                         predictBtn, lastRun>>]_vars

\* a call has just been turned away while the running call is past its
\* first epoch and after an earlier run had already set the timestamp
C1_Witness ==
    /\ ev.op = "train" /\ ev.outcome = "noop"
    /\ isTraining
    /\ \E r \in DOMAIN fit : fit[r] > 0 /\ model = r

\* C2: at most one trainModel call is between its entry and its completion.
C2_AtMostOneRun == Cardinality(DOMAIN fit) <= 1

\* C3: a trainModel call that set the flag has cleared it when it ends, however
\* it ends (createModel, compile, tensor preparation, fit or the update of the
\* page failing, or success); the flag is therefore set only while a call is
\* suspended in fit, and the session cannot stay stuck in Training.
C3_FlagCleared ==
    /\ (ev.op = "train" /\ ev.outcome \in {"failed", "succeeded"}) => ~isTraining
    /\ isTraining => DOMAIN fit # {}

\* a run has just failed in fit after some epochs, and the flag is clear
C3_Witness ==
    /\ variant = "part_000"
    /\ ev.op = "train" /\ ev.outcome = "failed" /\ ev.stage = "fit"
    /\ model # NoModel /\ heap[model].fitted = "partial"
    /\ ~isTraining

\* C4: predictRating before any trainModel call reports that the model is
\* not ready.
C4_PredictBeforeTrain ==
    (ev.op = "predict" /\ calls = 0) => ev.outcome = "modelNotReady"

\* C5: predictRating while a training run is in progress reports that the
\* model is not ready, and returns no rating.
C5_PredictWhileTraining ==
    (ev.op = "predict" /\ isTraining) => ev.outcome = "modelNotReady"

\* C6: a failed training run is reported to the caller of trainModel as an
\* error (the call's promise is rejected), with the flag already cleared.
C6_FailureReported ==
    (ev.op = "train" /\ ev.outcome = "failed") =>
        (ev.promise = "rejected" /\ ~isTraining)

\* C7: after a failed training run, and until a later run succeeds,
\* predictRating reports that the model is not ready.
C7_FailedRunNotReady ==
    (ev.op = "predict" /\ lastRun = "failed") => ev.outcome = "modelNotReady"

\* the global model is the fully fitted model of a run that succeeded
Trained ==
    /\ lastRun = "succeeded"
    /\ model # NoModel
    /\ heap[model].fitted = "complete"

\* C8: after a successful run, predictRating with ids inside the tables (0
\* included) returns a rating in [1,5]: 1 for a dot product below 1, 5 for one
\* above 5, the dot product itself (to two decimals) otherwise.
C8_ValidPredictionInRange ==
    (ev.op = "predict" /\ Trained /\ InTable(ev.user, ev.movie, heap[model])) =>
        /\ ev.outcome = "value"
        /\ 100 <= ev.display /\ ev.display <= 500
        /\ ev.display = IF ev.raw < 1000 THEN 100
                        ELSE IF ev.raw > 5000 THEN 500
                        ELSE toFixed2(ev.raw)

\* C9: predictRating with an id outside the tables of the model fails with an
\* out-of-range error and returns no rating.
C9_OutOfRangeRejected ==
    (ev.op = "predict" /\ model # NoModel
        /\ ~InTable(ev.user, ev.movie, heap[model])) =>
        ev.outcome = "outOfRange"

\* C10: createModel throws when numUsers, numMovies or latentDim is not
\* positive, and otherwise returns a model whose tables have exactly numUsers
\* and numMovies rows of length latentDim.
C10_BuildContract ==
    ev.op = "build" =>
        IF ev.nu <= 0 \/ ev.nm <= 0 \/ ev.ld <= 0
        THEN ev.outcome = "threw"
        ELSE /\ ev.outcome = "model"
             /\ ev.userRows = ev.nu
             /\ ev.movieRows = ev.nm
             /\ ev.dim = ev.ld


\* C11: after loadData, in the model built from numUsers and numMovies, every
\* user id of the ratings is a row of the user table and every movie id a row
\* of the movie table, whether or not the ids of the files are dense.
C11_IdsInRange ==
    data.loaded =>
        LET m == ModelFor(numUsers, numMovies)
        IN  m.ok => \A r \in data.ratings : InTable(r[1], r[2], m)

\* C12: a predictRating call, whatever it reports (a value, model not ready,
\* invalid selection, prediction failed, or an uncaught error), leaves the
\* model reference, the model objects with their two tables, the in-progress
\* flag and the start timestamp as they were.
C12_PredictReadOnly ==
    [][ev'.op = "predict" =>
           UNCHANGED <<model, heap, isTraining, trainingStartTime>>]_vars

\* a prediction is shown while a training run is in progress
C12_Witness ==
    /\ ev.op = "predict"
    /\ ev.outcome = "value"
    /\ isTraining
    /\ model # NoModel

\* the epoch numbers 0 .. n - 1 in order
EpochsUpTo(n) == [i \in 1 .. n |-> i - 1]

\* C13: in part_000 a running fit call has reported each epoch it has
\* completed exactly once, in the order 0, 1, 2, ...; every report is made
\* while the in-progress flag is set; and a call that ends in success has
\* reported exactly the epochs 0 .. EPOCHS - 1.
C13_OneReportPerEpoch ==
    variant = "part_000" =>
        /\ \A r \in DOMAIN fit : reports[r] = EpochsUpTo(fit[r])
        /\ ev.op = "epoch" => (isTraining /\ ev.run \in DOMAIN fit)
        /\ (ev.op = "train" /\ ev.outcome = "succeeded") =>
               ev.reported = EpochsUpTo(EPOCHS)

\* a part_000 run has just ended in success, all its reports made
C13_Witness ==
    /\ variant = "part_000"
    /\ ev.op = "train"
    /\ ev.outcome = "succeeded"
    /\ Len(ev.reported) = EPOCHS

\* a trainModel call that got past the single-flight check
Accepted == TrainCalled /\ ev'.outcome # "noop"

\* C14 as stated: every accepted trainModel call creates exactly one new model
\* object, and `model` refers to it from then on.
C14_EveryAcceptedCallCreates ==
    [][Accepted => (created' = created + 1 /\ model' = created')]_vars

\* C14, amended: an accepted trainModel call in which createModel returns
\* creates exactly one new model object, which replaces the previous one; an
\* accepted call in which createModel throws, a rejected call and every other
\* handler create none and leave `model` alone; predictRating reads the most
\* recently created model.
C14_ModelLifecycle ==
    [][/\ (Accepted /\ ev'.stage # "create") =>
           (created' = created + 1 /\ model' = created' /\ model' # model)
       /\ ~(Accepted /\ ev'.stage # "create") => UNCHANGED <<model, created>>
       /\ ev'.op = "predict" => ev'.modelId = created']_vars

\* a second accepted call has replaced the model of the first
C14_Witness ==
    /\ ev.op = "train"
    /\ ev.outcome = "started"
    /\ created = 2
    /\ model = 2

\* the current model has been through a complete fit
TrainedModel == model # NoModel /\ heap[model].fitted = "complete"

\* C15: a trainModel call in which createModel throws while a trained model
\* exists leaves that model current and untouched, and a predictRating call
\* right after it with ids the page offers shows a value of that model.
C15_FailedBuildKeepsModel ==
    [][/\ (TrainCalled /\ ev'.stage = "create" /\ TrainedModel) =>
           (UNCHANGED <<model, heap>> /\ TrainedModel')
       /\ ( /\ ev.op = "train" /\ ev.stage = "create" /\ TrainedModel
            /\ ev'.op = "predict"
            /\ InTable(ev'.user, ev'.movie, heap[model])
            /\ variant = "part_000" => ~SelectionCheck(ev'.user, ev'.movie) ) =>
           (ev'.outcome = "value" /\ ev'.modelId = model)]_vars

\* a build has just failed while a trained model exists
C15_Witness ==
    /\ ev.op = "train"
    /\ ev.outcome = "failed"
    /\ ev.stage = "create"
    /\ TrainedModel

\* C17: the predict button goes from disabled to enabled only in the step in
\* which a trainModel call resumes in success after its fit call completed
\* all its epochs, and once enabled it is never disabled.
C17_ButtonEnabledBySuccess ==
    [][/\ predictBtn => predictBtn'
       /\ (~predictBtn /\ predictBtn') =>
              /\ ev'.op = "train"
              /\ ev'.outcome = "succeeded"
              /\ ev'.run \in DOMAIN fit
              /\ fit[ev'.run] = EPOCHS]_vars

\* the button is still enabled after a later run failed
C17_Witness ==
    /\ predictBtn
    /\ lastRun = "failed"

\* C18: for two genre lists over the canonical genres, duplicates allowed,
\* jaccardSimilarity of their toGenreVector vectors equals the score week2
\* computes from the two Sets; both are 0 when both lists are empty; and both
\* are the same with the lists exchanged.
C18_JaccardAgree ==
    sim.done =>
        /\ Same(sim.byVector, sim.bySet)
        /\ (sim.a = <<>> /\ sim.b = <<>>) =>
               (sim.byVector.num = 0 /\ sim.bySet.num = 0)
        /\ Same(sim.byVector, sim.byVectorRev)
        /\ Same(sim.bySet, sim.bySetRev)

\* lists with a repeated genre and a partial overlap: score 1/3 both ways
C18_Witness ==
    /\ sim.done
    /\ sim.a = <<1, 1, 2>>
    /\ sim.b = <<2, 3>>
    /\ sim.byVector = Score(1, 9)
    /\ sim.bySet = Score(1, 9)

\* the movies of the list other than the selected one
OtherMovies ==
    {rank.movies[i] : i \in {j \in DOMAIN rank.movies :
                                 rank.movies[j].id # rank.selected}}

\* the selected movie
Liked == rank.movies[CHOOSE i \in DOMAIN rank.movies :
                         rank.movies[i].id = rank.selected]

\* C16: the list getRecommendations shows never has the selected movie, has
\* min(N, number of other movies) different movies of the list, is in order
\* of non-increasing score with equal scores in ascending title order, and no
\* movie left out has a strictly higher score than a movie shown (N = 5 with
\* the metric switch, N = 2 in week2).
C16_TopN ==
    rank.done =>
        LET top == rank.top
            shown == {top[k].id : k \in DOMAIN top}
            rest == OtherMovies
            sc(m) == ScoreOf(rank.script, rank.metric, Liked, m)
        IN  /\ rank.selected \notin shown
            /\ Len(top) = Min(TopOf(rank.script), Cardinality(rest))
            /\ Cardinality(shown) = Len(top)
            /\ \A k \in DOMAIN top :
                   \E m \in rest :
                       m.id = top[k].id /\ m.title = top[k].title
            /\ \A k \in 1 .. Len(top) - 1 :
                   /\ ~Less(top[k].score, top[k + 1].score)
                   /\ Same(top[k].score, top[k + 1].score) =>
                          top[k].title <= top[k + 1].title
            /\ \A m \in rest :
                   m.id \notin shown =>
                       LET left == sc(m)
                       IN  \A k \in DOMAIN top : ~Less(top[k].score, left)

\* five of six candidates shown, with different scores among them
C16_Witness ==
    /\ rank.done
    /\ rank.script = "part_001"
    /\ Len(rank.movies) = TOP_N + 2
    /\ Len(rank.top) = TOP_N
    /\ Less(rank.top[TOP_N].score, rank.top[1].score)

============================================================================
